---- MODULE Spec2Model ----
(***************************************************************************)
(* Model of the authentication / authorization pipeline and the user and   *)
(* admin routes of the FastAPI application under src/app.                  *)
(*                                                                         *)
(* The store is modelled table by table (users with their scope grants,    *)
(* access token records); every HTTP request is one action that runs the   *)
(* dependency chain (oauth_scheme -> validate_token -> get_current_user    *)
(* -> is_admin) and then the route handler.  What a request answers and     *)
(* what it writes is the value of its `_result` operator; the action of    *)
(* the request commits the writes.  Time is unix seconds.                  *)
(***************************************************************************)
EXTENDS Integers, Sequences, FiniteSets, TLC

(***************************************************************************)
(* Bounds of the model.                                                    *)
(***************************************************************************)
MaxUsers == 2
MaxTokens == 2
MaxNow == 3600
MaxInflight == 2

(***************************************************************************)
(* Program constants.                                                      *)
(***************************************************************************)
\* src/app/core/config.py: Settings.access_token_expire_minutes
access_token_expire_minutes == 60
\* src/app/models.py: AccessToken.is_expired, timedelta(minutes=5)
is_expired_grace_minutes == 5
\* src/app/core/config.py: Settings.first_admin_username / first_admin_password
first_admin_username == "admin"
first_admin_password == "admin"

\* src/app/main.py: api_scopes (the keys of the registry)
api_scopes ==
    {"me", "admin.assign", "users.read", "users.write", "users.reset", "users.update"}

None == "<None>"
Falsy(v) == v \in {None, ""}

\* the timedelta read as a bare number of minutes
total_seconds_as_minutes(minutes) == minutes

\* timedelta(minutes=m).total_seconds()
total_seconds(minutes) == minutes * 60

(***************************************************************************)
(* Inputs of the requests, drawn from small sets.                          *)
(***************************************************************************)
\* the clock moves 56 or 60 minutes at a time: a token issued at 0 is then
\* inside its last five minutes (56 min) or past its exp (60 min)
ClockSteps == {56 * 60, 60 * 60}
NewUsernames == {"alice1"}
StrongPasswords == {"Passw0rd!", "N3w-Pass"}
Passwords == {first_admin_password} \cup StrongPasswords

(***************************************************************************)
(* src/app/utils/auth.py: password hashing.  A digest is self-describing   *)
(* and distinct from the plaintext; verification recomputes.               *)
(***************************************************************************)
get_password_hash(password) == <<"$2b$", password>>

\* a verification that accepts every password
verify_password_any(plain_password, hashed_password) == TRUE

verify_password(plain_password, hashed_password) ==
    hashed_password = <<"$2b$", plain_password>>

\* src/app/schemas/user.py: validate_password, over the passwords of the model
validate_password(value) == value \in StrongPasswords

(***************************************************************************)
(* The state.                                                              *)
(***************************************************************************)
VARIABLES
    users,      \* table users: sequence of rows, users[i].id = i
    tokens,     \* table accesstokens: sequence of rows
    bearers,    \* bearer tokens returned by POST /token (held by clients)
    now,        \* the clock, unix seconds
    booted,     \* the lifespan start-up has run
    inflight    \* POST /admin/users requests between their check and their commit

vars == <<users, tokens, bearers, now, booted, inflight>>

NoResp == [status |-> 0, detail |-> "", challenge |-> "", handler |-> "none"]

Response(status, detail, challenge, handler) ==
    [status |-> status, detail |-> detail, challenge |-> challenge, handler |-> handler]

\* src/app/models.py: UserScope(scope=..., is_active=...)
UserScopeDB(scope, is_active) == [scope |-> scope, is_active |-> is_active]

(***************************************************************************)
(* src/app/main.py: create_initial_admin_user                              *)
(***************************************************************************)
\* the bootstrap user, as create_initial_admin_user builds it
initial_admin_user(id) ==
    [id |-> id,
     username |-> first_admin_username,
     email |-> None,
     password |-> get_password_hash(first_admin_password),
     fullname |-> "Superadmin",
     is_active |-> TRUE,
     role |-> "superadmin",
     allowed_scopes |-> << UserScopeDB("me", TRUE),
                           UserScopeDB("admin.assign", TRUE),
                           UserScopeDB("users.read", TRUE),
                           UserScopeDB("users.write", TRUE) >>]

\* the bootstrap user inserted without the count query being consulted
create_initial_admin_user_unconditionally(db_users) ==
    Append(db_users, initial_admin_user(Len(db_users) + 1))

create_initial_admin_user(db_users) ==
    IF Cardinality({i \in 1..Len(db_users) :
                        db_users[i].username = first_admin_username}) = 0
    THEN Append(db_users, initial_admin_user(Len(db_users) + 1))
    ELSE db_users

(***************************************************************************)
(* src/app/utils/auth.py: the token codec.  A bearer token is its claims   *)
(* and a signature that is valid only when the codec produced it.          *)
(***************************************************************************)
NullJwt == [iss |-> "", sub |-> "", jti |-> 0, exp |-> 0, sig |-> "none"]

create_access_token(data, expires_delta, utcnow) ==
    [iss |-> data.iss, sub |-> data.sub, jti |-> data.jti,
     exp |-> utcnow + expires_delta, sig |-> "valid"]

\* jwt.decode with the exp claim left unverified
decode_access_token_without_exp(token, utcnow) ==
    IF token.sig # "valid" THEN [error |-> "InvalidTokenError", payload |-> NullJwt]
    ELSE [error |-> "", payload |-> token]

\* jwt.decode: the signature is verified first, then the exp claim
decode_access_token(token, utcnow) ==
    IF token.sig # "valid" THEN [error |-> "InvalidTokenError", payload |-> NullJwt]
    ELSE IF token.exp <= utcnow THEN [error |-> "ExpiredSignatureError", payload |-> NullJwt]
    ELSE [error |-> "", payload |-> token]

\* the Authorization header of a request
NoHeader == [scheme |-> "", param |-> NullJwt]
BearerHeader(token) == [scheme |-> "Bearer", param |-> token]

\* src/app/utils/auth.py: OAuth2ClientCredentials.__call__
oauth_scheme(authorization) ==
    IF authorization.scheme = "" \/ authorization.scheme # "Bearer"
    THEN [ok |-> FALSE, token |-> NullJwt,
          response |-> Response(401, "Not authenticated", "Bearer", "none")]
    ELSE [ok |-> TRUE, token |-> authorization.param, response |-> NoResp]

\* authenticate_user without its is_active check
authenticate_user_ignoring_is_active(db_users, username, password) ==
    IF Falsy(username) \/ Falsy(password) THEN 0
    ELSE LET found == {i \in 1..Len(db_users) : db_users[i].username = username}
         IN IF found = {} THEN 0
            ELSE LET user == db_users[CHOOSE i \in found : \A j \in found : i <= j]
                 IN IF ~verify_password(password, user.password) THEN 0
                    ELSE user.id

\* src/app/utils/auth.py: authenticate_user; 0 stands for False
authenticate_user(db_users, username, password) ==
    IF Falsy(username) \/ Falsy(password) THEN 0
    ELSE LET found == {i \in 1..Len(db_users) : db_users[i].username = username}
         IN IF found = {} THEN 0
            ELSE LET user == db_users[CHOOSE i \in found : \A j \in found : i <= j]
                 IN IF ~verify_password(password, user.password) THEN 0
                    ELSE IF ~user.is_active THEN 0
                    ELSE user.id

\* src/app/models.py: AccessToken.is_expired (with its 5 minute window)
is_expired(record, utcnow) ==
    record.expired_at < utcnow + total_seconds(is_expired_grace_minutes)

\* TokenData as src/app/main.py builds and completes it
TokenData(id, scopes, username) ==
    [id |-> id, scopes |-> scopes, username |-> username, user_id |-> 0]

NoTokenData == TokenData(0, <<>>, "")

(***************************************************************************)
(* src/app/main.py: validate_token (stage 1)                               *)
(***************************************************************************)
\* the record query without its filter on the token identifier
check_token_query_any_token(db_tokens, token_id) ==
    {i \in 1..Len(db_tokens) : db_tokens[i].is_revoked = FALSE}

\* the record query without its is_revoked filter
check_token_query_with_revoked(db_tokens, token_id) ==
    {i \in 1..Len(db_tokens) : db_tokens[i].token = token_id}

\* the rows of db.query(AccessTokenDB).filter(token == id, is_revoked == False)
check_token_query(db_tokens, token_id) ==
    {i \in 1..Len(db_tokens) :
        /\ db_tokens[i].token = token_id
        /\ db_tokens[i].is_revoked = FALSE}

validate_token(db_tokens, authorization, utcnow) ==
    LET scheme == oauth_scheme(authorization)
        decoded == decode_access_token(scheme.token, utcnow)
        tokendata == TokenData(decoded.payload.jti, <<>>, decoded.payload.sub)
        matching == check_token_query(db_tokens, tokendata.id)
    IN IF ~scheme.ok
       THEN [ok |-> FALSE, tokendata |-> NoTokenData, response |-> scheme.response]
       ELSE IF decoded.error = "ExpiredSignatureError"
       THEN [ok |-> FALSE, tokendata |-> NoTokenData,
             response |-> Response(401, "Token expired", "Bearer", "none")]
       ELSE IF decoded.error = "InvalidTokenError"
       THEN [ok |-> FALSE, tokendata |-> NoTokenData,
             response |-> Response(401, "Could not validate credentials", "Bearer", "none")]
       ELSE IF matching = {}
       THEN [ok |-> FALSE, tokendata |-> NoTokenData,
             response |-> Response(401, "Could not validate credentials", "Bearer", "none")]
       ELSE LET check_token == db_tokens[CHOOSE i \in matching : \A j \in matching : i <= j]
            IN [ok |-> TRUE,
                tokendata |-> [tokendata EXCEPT !.user_id = check_token.user_id],
                response |-> NoResp]

NoUser ==
    [id |-> 0, username |-> "", email |-> None, password |-> <<"", "">>,
     fullname |-> None, is_active |-> FALSE, role |-> "", allowed_scopes |-> <<>>]

\* the first grant of the scope, taken as active whatever its is_active
first_scope_taken_active(allowed_scopes, scope) ==
    [found |-> \E i \in 1..Len(allowed_scopes) : allowed_scopes[i].scope = scope,
     is_active |-> TRUE]

\* next((x for x in user.allowed_scopes if x.scope == scope), None)
first_scope(allowed_scopes, scope) ==
    LET at == {i \in 1..Len(allowed_scopes) : allowed_scopes[i].scope = scope}
    IN IF at = {} THEN [found |-> FALSE, is_active |-> FALSE]
       ELSE [found |-> TRUE,
             is_active |-> allowed_scopes[CHOOSE i \in at : \A j \in at : i <= j].is_active]

(***************************************************************************)
(* src/app/main.py: get_current_user (stage 2), given stage 1's result     *)
(***************************************************************************)
\* get_current_user with the scope loop ahead of the credentials check
get_current_user_scopes_first(security_scopes, validated, db_users) ==
    LET tokendata == validated.tokendata
        found == {i \in 1..Len(db_users) : db_users[i].username = tokendata.username}
        user == IF found = {} THEN NoUser
                ELSE db_users[CHOOSE i \in found : \A j \in found : i <= j]
    IN IF ~validated.ok
       THEN [ok |-> FALSE, user |-> NoUser, response |-> validated.response]
       ELSE IF \E scope \in security_scopes :
                    LET uscope == first_scope(user.allowed_scopes, scope)
                    IN ~uscope.found \/ ~uscope.is_active
       THEN [ok |-> FALSE, user |-> NoUser,
             response |-> Response(403, "Not enough permissions", "", "none")]
       ELSE IF found = {} \/ ~user.is_active \/ tokendata.user_id # user.id
       THEN [ok |-> FALSE, user |-> NoUser,
             response |-> Response(401, "Invalid credentials", "Bearer", "none")]
       ELSE [ok |-> TRUE, user |-> user, response |-> NoResp]

get_current_user(security_scopes, validated, db_users) ==
    LET tokendata == validated.tokendata
        found == {i \in 1..Len(db_users) : db_users[i].username = tokendata.username}
        user == IF found = {} THEN NoUser
                ELSE db_users[CHOOSE i \in found : \A j \in found : i <= j]
    IN IF ~validated.ok
       THEN [ok |-> FALSE, user |-> NoUser, response |-> validated.response]
       ELSE IF found = {} \/ ~user.is_active \/ tokendata.user_id # user.id
       THEN [ok |-> FALSE, user |-> NoUser,
             response |-> Response(401, "Invalid credentials", "Bearer", "none")]
       ELSE IF \E scope \in security_scopes :
                    LET uscope == first_scope(user.allowed_scopes, scope)
                    IN ~uscope.found \/ ~uscope.is_active
       THEN [ok |-> FALSE, user |-> NoUser,
             response |-> Response(403, "Not enough permissions", "", "none")]
       ELSE [ok |-> TRUE, user |-> user, response |-> NoResp]

\* is_admin letting every role through
is_admin_any_role(current) == current

\* src/app/routes/admin/utils.py: is_admin, given get_current_user's result
is_admin(current) ==
    IF ~current.ok THEN current
    ELSE IF current.user.role \notin {"admin", "superadmin"}
    THEN [ok |-> FALSE, user |-> NoUser,
          response |-> Response(403, "Not enough permissions", "", "none")]
    ELSE current

\* Security(get_current_user, scopes=...) as a request resolves it
CurrentUser(authorization, security_scopes) ==
    get_current_user(security_scopes, validate_token(tokens, authorization, now), users)

\* Security(is_admin, scopes=...) as a request resolves it
AdminUser(authorization, security_scopes) ==
    is_admin(CurrentUser(authorization, security_scopes))

(***************************************************************************)
(* The Authorization headers a client may send: none, a bearer token the   *)
(* service issued, such a token with its signature broken, or a forged one *)
(* naming a user and a token id no record has.                             *)
(***************************************************************************)
IssuedTokens == {bearers[i] : i \in 1..Len(bearers)}
TamperedTokens == {[t EXCEPT !.sig = "tampered", !.exp = now + 1] : t \in IssuedTokens}
ForgedTokens ==
    {[iss |-> "client", sub |-> first_admin_username, jti |-> MaxTokens + 1,
      exp |-> now + 1, sig |-> "forged"]}
Headers ==
    {NoHeader} \cup {BearerHeader(t) : t \in IssuedTokens \cup TamperedTokens \cup ForgedTokens}

Init ==
    /\ users = <<>>
    /\ tokens = <<>>
    /\ bearers = <<>>
    /\ now = 0
    /\ booted = FALSE
    /\ inflight = <<>>

\* src/app/main.py: lifespan (runs at every process start)
lifespan ==
    /\ users' = create_initial_admin_user(users)
    /\ booted' = TRUE
    /\ UNCHANGED <<tokens, bearers, now, inflight>>

\* the passage of time
Tick ==
    \E d \in ClockSteps :
        /\ now + d <= MaxNow
        /\ now' = now + d
        /\ UNCHANGED <<users, tokens, bearers, booted, inflight>>

(***************************************************************************)
(* The result of a request: its response and the store it leaves.          *)
(***************************************************************************)
Result(response, db_users, db_tokens, issued) ==
    [response |-> response, users |-> db_users, tokens |-> db_tokens, bearers |-> issued]

\* an HTTPException raised before anything is written
Raise(response) == Result(response, users, tokens, bearers)

\* db.commit() and the response going out, within the bounds of the model
Commit(result) ==
    /\ booted
    /\ Len(result.users) <= MaxUsers
    /\ Len(result.tokens) <= MaxTokens
    /\ users' = result.users
    /\ tokens' = result.tokens
    /\ bearers' = result.bearers
    /\ UNCHANGED <<now, booted, inflight>>

\* a route: its dependencies are resolved first, then its handler runs
Route(current, handled) == IF ~current.ok THEN Raise(current.response) ELSE handled

\* a request that a dependency refuses
Refused(current) == Commit(Raise(current.response))

(***************************************************************************)
(* src/app/main.py: get_token (POST /token)                                *)
(***************************************************************************)
NoCreds == [client_id |-> "", client_secret |-> ""]
Credentials ==
    {NoCreds}
        \cup [client_id : {first_admin_username} \cup NewUsernames \cup {"nobody"},
              client_secret : Passwords]

\* form credentials alone, Basic credentials alone, both absent, and Basic
\* credentials behind form fields that are incomplete or wrong
TokenRequests ==
    {[form_data |-> c, basic_creds |-> NoCreds] : c \in Credentials}
        \cup {[form_data |-> NoCreds, basic_creds |-> c] : c \in Credentials}
        \cup {[form_data |-> [client_id |-> "nobody", client_secret |-> s],
               basic_creds |-> [client_id |-> first_admin_username,
                                client_secret |-> first_admin_password]] :
                    s \in {"", first_admin_password}}

\* get_token looking at the Basic header before the form fields
get_token_result_basic_first(form_data, basic_creds) ==
    LET use_basic == basic_creds # NoCreds
        use_form == /\ ~use_basic
                    /\ ~Falsy(form_data.client_id) /\ ~Falsy(form_data.client_secret)
        client_id == IF use_form THEN form_data.client_id ELSE basic_creds.client_id
        client_secret == IF use_form THEN form_data.client_secret
                         ELSE basic_creds.client_secret
        user_id == authenticate_user(users, client_id, client_secret)
        access_token_expires == total_seconds(access_token_expire_minutes)
        token_id == Len(tokens) + 1      \* ULID(): a fresh identifier
        access_token ==
            create_access_token(
                [iss |-> "client", sub |-> users[user_id].username, jti |-> token_id],
                access_token_expires, now)
        unixtime == now
        token == [token |-> token_id,
                  user_id |-> user_id,
                  timestamp |-> unixtime,
                  expired_at |-> unixtime + access_token_expires,
                  is_revoked |-> FALSE]
    IN IF ~use_form /\ ~use_basic
       THEN Raise(Response(400, "Not authenticated", "Basic", "get_token"))
       ELSE IF user_id = 0
       THEN Raise(Response(400, "Not authenticated", "", "get_token"))
       ELSE Result(Response(200, "", "", "get_token"),
                   users, Append(tokens, token), Append(bearers, access_token))

get_token_result(form_data, basic_creds) ==
    LET use_form == ~Falsy(form_data.client_id) /\ ~Falsy(form_data.client_secret)
        use_basic == ~use_form /\ basic_creds # NoCreds
        client_id == IF use_form THEN form_data.client_id ELSE basic_creds.client_id
        client_secret == IF use_form THEN form_data.client_secret
                         ELSE basic_creds.client_secret
        user_id == authenticate_user(users, client_id, client_secret)
        access_token_expires == total_seconds(access_token_expire_minutes)
        token_id == Len(tokens) + 1      \* ULID(): a fresh identifier
        access_token ==
            create_access_token(
                [iss |-> "client", sub |-> users[user_id].username, jti |-> token_id],
                access_token_expires, now)
        unixtime == now
        token == [token |-> token_id,
                  user_id |-> user_id,
                  timestamp |-> unixtime,
                  expired_at |-> unixtime + access_token_expires,
                  is_revoked |-> FALSE]
    IN IF ~use_form /\ ~use_basic
       THEN Raise(Response(400, "Not authenticated", "Basic", "get_token"))
       ELSE IF user_id = 0
       THEN Raise(Response(400, "Not authenticated", "", "get_token"))
       ELSE Result(Response(200, "", "", "get_token"),
                   users, Append(tokens, token), Append(bearers, access_token))

get_token(form_data, basic_creds) == Commit(get_token_result(form_data, basic_creds))

(***************************************************************************)
(* src/app/routes/user.py: the /profile routes                             *)
(***************************************************************************)
\* the /profile dependency with its scopes left out
profile_dependency_unscoped(authorization) == CurrentUser(authorization, {})

\* dependencies=[Security(get_current_user, scopes=["me"])] of the router
profile_dependency(authorization) == CurrentUser(authorization, {"me"})

read_users_me_handler(current_user) == Raise(Response(200, "", "", "read_users_me"))

read_users_me_result(authorization) ==
    Route(profile_dependency(authorization),
          read_users_me_handler(profile_dependency(authorization).user))

read_users_me(authorization) ==
    LET current == profile_dependency(authorization)
    IN IF ~current.ok THEN Refused(current)
       ELSE Commit(read_users_me_handler(current.user))

\* bodies of PATCH /profile: every field empty, and the email alone
ProfileUpdates ==
    {[email |-> None, fullname |-> ""],
     [email |-> "a@x.io", fullname |-> None]}

\* update_users_me storing the fields of the body as they come
update_users_me_handler_overwriting(current_user, user) ==
    LET db_user == users[current_user.id]
    IN IF Falsy(user.email) /\ Falsy(user.fullname)
       THEN Raise(Response(400, "No fields to update", "", "update_users_me"))
       ELSE Result(Response(200, "", "", "update_users_me"),
                   [users EXCEPT ![current_user.id] =
                        [db_user EXCEPT !.fullname = user.fullname,
                                        !.email = user.email]],
                   tokens, bearers)

update_users_me_handler(current_user, user) ==
    LET db_user == users[current_user.id]
    IN IF Falsy(user.email) /\ Falsy(user.fullname)
       THEN Raise(Response(400, "No fields to update", "", "update_users_me"))
       ELSE Result(Response(200, "", "", "update_users_me"),
                   [users EXCEPT ![current_user.id] =
                        [db_user EXCEPT
                            !.fullname = IF Falsy(user.fullname) THEN db_user.fullname
                                         ELSE user.fullname,
                            !.email = IF Falsy(user.email) THEN db_user.email
                                      ELSE user.email]],
                   tokens, bearers)

update_users_me_result(authorization, user) ==
    Route(profile_dependency(authorization),
          update_users_me_handler(profile_dependency(authorization).user, user))

update_users_me(authorization) ==
    LET current == profile_dependency(authorization)
    IN IF ~current.ok THEN Refused(current)
       ELSE \E user \in ProfileUpdates :
                Commit(update_users_me_handler(current.user, user))

PasswordChanges ==
    [old_password : Passwords, new_password : {"N3w-Pass", first_admin_password}]

\* src/app/schemas/user.py: UserChangePassword.validate_password
UserChangePassword_valid(input) ==
    /\ validate_password(input.new_password)
    /\ input.new_password # input.old_password

\* the user's active records deleted instead of flagged
revoke_access_tokens_by_delete(db_tokens, user_id, utcnow) ==
    SelectSeq(db_tokens,
              LAMBDA record : ~(/\ record.user_id = user_id
                                /\ record.is_revoked = FALSE
                                /\ is_expired(record, utcnow) = FALSE))

\* revoke_access_tokens with the is_expired filter inverted
revoke_access_tokens_expired_only(db_tokens, user_id, utcnow) ==
    [i \in 1..Len(db_tokens) |->
        IF /\ db_tokens[i].user_id = user_id
           /\ db_tokens[i].is_revoked = FALSE
           /\ is_expired(db_tokens[i], utcnow) = TRUE
        THEN [db_tokens[i] EXCEPT !.is_revoked = TRUE]
        ELSE db_tokens[i]]

\* the bulk update of change_password that revokes the user's tokens
revoke_access_tokens(db_tokens, user_id, utcnow) ==
    [i \in 1..Len(db_tokens) |->
        IF /\ db_tokens[i].user_id = user_id
           /\ db_tokens[i].is_revoked = FALSE
           /\ is_expired(db_tokens[i], utcnow) = FALSE
        THEN [db_tokens[i] EXCEPT !.is_revoked = TRUE]
        ELSE db_tokens[i]]

change_password_handler(current_user, input) ==
    IF ~UserChangePassword_valid(input)
    THEN Raise(Response(422, "validation", "", "none"))
    ELSE IF ~verify_password(input.old_password, current_user.password)
    THEN Raise(Response(400, "Cannot change password", "", "change_password"))
    ELSE Result(Response(204, "", "", "change_password"),
                [users EXCEPT ![current_user.id].password =
                    get_password_hash(input.new_password)],
                revoke_access_tokens(tokens, current_user.id, now),
                bearers)

change_password_result(authorization, input) ==
    Route(profile_dependency(authorization),
          change_password_handler(profile_dependency(authorization).user, input))

change_password(authorization) ==
    LET current == profile_dependency(authorization)
    IN IF ~current.ok THEN Refused(current)
       ELSE \E input \in PasswordChanges :
                Commit(change_password_handler(current.user, input))

(***************************************************************************)
(* src/app/routes/admin/users.py: the /admin/users routes                  *)
(***************************************************************************)
UserIds == 1..(MaxUsers + 1)

\* db.get(UserDB, user_id)
db_get(db_users, user_id) ==
    IF user_id \in 1..Len(db_users) THEN db_users[user_id] ELSE NoUser

_set_admin_role(user_id, as_admin, handler) ==
    LET user == db_get(users, user_id)
    IN IF user = NoUser
       THEN Raise(Response(404, "User not found", "", handler))
       ELSE IF user.role = "superadmin" /\ ~as_admin
       THEN Raise(Response(403, "Admin privileges cannot be removed from this user",
                           "", handler))
       ELSE Result(Response(204, "", "", handler),
                   [users EXCEPT ![user_id].role = IF as_admin THEN "admin" ELSE "user"],
                   tokens, bearers)

\* Security(is_admin, scopes=["users.read"]) of get_all_users and get_user
users_read_dependency(authorization) == AdminUser(authorization, {"users.read"})
\* Security(is_admin, scopes=["users.write"]) of create_user
users_write_dependency(authorization) == AdminUser(authorization, {"users.write"})
\* Security(is_admin, scopes=["users.update"]) of update_user
users_update_dependency(authorization) == AdminUser(authorization, {"users.update"})
\* Security(is_admin, scopes=["admin.assign"]) of set_user_as_admin, unset_user_as_admin
admin_assign_dependency(authorization) == AdminUser(authorization, {"admin.assign"})

get_all_users_handler(current_user) == Raise(Response(200, "", "", "get_all_users"))

get_all_users_result(authorization) ==
    Route(users_read_dependency(authorization),
          get_all_users_handler(users_read_dependency(authorization).user))

get_all_users(authorization) ==
    LET current == users_read_dependency(authorization)
    IN IF ~current.ok THEN Refused(current)
       ELSE Commit(get_all_users_handler(current.user))

get_user_handler(current_user, user_id) ==
    IF db_get(users, user_id) = NoUser
    THEN Raise(Response(404, "User not found", "", "get_user"))
    ELSE Raise(Response(200, "", "", "get_user"))

get_user_result(authorization, user_id) ==
    Route(users_read_dependency(authorization),
          get_user_handler(users_read_dependency(authorization).user, user_id))

get_user(authorization) ==
    LET current == users_read_dependency(authorization)
    IN IF ~current.ok THEN Refused(current)
       ELSE \E user_id \in UserIds : Commit(get_user_handler(current.user, user_id))

\* src/app/schemas/user.py: UserCreate.validate_password and validate_scopes
UserCreate_valid(user) ==
    /\ validate_password(user.password)
    /\ (user.scopes # {} => \A scope \in user.scopes : scope \in api_scopes)

\* the orders in which a set may be iterated
Orderings(S) ==
    {seq \in [1..Cardinality(S) -> S] :
        \A i, j \in 1..Cardinality(S) : i # j => seq[i] # seq[j]}

\* bodies of POST /admin/users: no scope, "me" alone, two scopes, an unknown
\* scope, a weak password
CreateScopes == {{}, {"me"}, {"admin.assign", "users.update"}, {"users.delete"}}
UserCreates ==
    [username : NewUsernames, password : {"Passw0rd!"},
     email : {None}, fullname : {None}, scopes : CreateScopes]
        \cup {[username |-> "alice1", password |-> first_admin_password,
               email |-> None, fullname |-> None, scopes |-> {}]}

\* the "me" grant appended whether or not it is there already
add_me_scope_always(allowed_scopes) == Append(allowed_scopes, UserScopeDB("me", TRUE))

\* if not any(scope.scope == "me" ...): allowed_scopes.append(UserScopeDB("me", True))
add_me_scope(allowed_scopes) ==
    IF ~\E i \in 1..Len(allowed_scopes) : allowed_scopes[i].scope = "me"
    THEN Append(allowed_scopes, UserScopeDB("me", TRUE))
    ELSE allowed_scopes

\* the row of create_user with the role of an administrator
create_user_row_as_admin(user, order, id) ==
    [id |-> id,
     username |-> user.username,
     email |-> user.email,
     fullname |-> user.fullname,
     password |-> get_password_hash(user.password),
     is_active |-> TRUE,
     role |-> "admin",
     allowed_scopes |-> add_me_scope([i \in 1..Len(order) |-> UserScopeDB(order[i], TRUE)])]

\* the row create_user builds; `order` is the order in which the set user.scopes
\* is iterated and `id` the key the insert assigns
create_user_row(user, order, id) ==
    [id |-> id,
     username |-> user.username,
     email |-> user.email,
     fullname |-> user.fullname,
     password |-> get_password_hash(user.password),
     is_active |-> TRUE,
     role |-> "user",
     allowed_scopes |-> add_me_scope([i \in 1..Len(order) |-> UserScopeDB(order[i], TRUE)])]

create_user_handler(current_user, user, order) ==
    LET db_user == create_user_row(user, order, Len(users) + 1)
    IN IF ~UserCreate_valid(user)
       THEN Raise(Response(422, "validation", "", "none"))
       ELSE IF \E i \in 1..Len(users) : users[i].username = user.username
       THEN Raise(Response(400, "Username already registered", "", "create_user"))
       ELSE Result(Response(201, "", "", "create_user"),
                   Append(users, db_user), tokens, bearers)

create_user_result(authorization, user, order) ==
    Route(users_write_dependency(authorization),
          create_user_handler(users_write_dependency(authorization).user, user, order))

create_user(authorization) ==
    LET current == users_write_dependency(authorization)
    IN IF ~current.ok THEN Refused(current)
       ELSE \E user \in UserCreates : \E order \in Orderings(user.scopes) :
                Commit(create_user_handler(current.user, user, order))

\* src/app/schemas/user.py: UserUpdate.validate_scopes
UserUpdate_valid(user) ==
    /\ (user.scopes # <<>> =>
            \A i \in 1..Len(user.scopes) : user.scopes[i].scope \in api_scopes)
    /\ (user.remove_scopes # {} => \A s \in user.remove_scopes : s \in api_scopes)
    /\ ~\E i \in 1..Len(user.scopes) : user.scopes[i].scope \in user.remove_scopes

\* {s.scope: s for s in allowed_scopes}: a dict as the sequence of its values
RECURSIVE scopes_dict_of(_)
scopes_dict_of(allowed_scopes) ==
    IF allowed_scopes = <<>> THEN <<>>
    ELSE LET n == Len(allowed_scopes)
             front == scopes_dict_of(SubSeq(allowed_scopes, 1, n - 1))
             last == allowed_scopes[n]
             at == {i \in 1..Len(front) : front[i].scope = last.scope}
         IN IF at = {} THEN Append(front, last)
            ELSE [front EXCEPT ![CHOOSE i \in at : TRUE] = last]

\* the listed grant appended without looking the scope up in the dict
setdefault_is_active_appending(scopes_dict, scope, active) ==
    Append(scopes_dict, UserScopeDB(scope, active))

\* scopes_dict.setdefault(scope, UserScopeDB(scope, is_active)).is_active = is_active
setdefault_is_active(scopes_dict, scope, active) ==
    LET at == {i \in 1..Len(scopes_dict) : scopes_dict[i].scope = scope}
    IN IF at = {} THEN Append(scopes_dict, UserScopeDB(scope, active))
       ELSE [scopes_dict EXCEPT ![CHOOSE i \in at : TRUE].is_active = active]

RECURSIVE add_or_update(_, _)
add_or_update(scopes_dict, scopes) ==
    IF scopes = <<>> THEN scopes_dict
    ELSE add_or_update(
            setdefault_is_active(scopes_dict, Head(scopes).scope, Head(scopes).is_active),
            Tail(scopes))

\* the removal loop without its exception for "me"
pop_scopes_including_me(scopes_dict, remove_scopes) ==
    SelectSeq(scopes_dict, LAMBDA s : s.scope \notin remove_scopes)

\* for scope in remove_scopes: if scope != "me": scopes_dict.pop(scope, None)
pop_scopes(scopes_dict, remove_scopes) ==
    SelectSeq(scopes_dict, LAMBDA s : ~(s.scope \in remove_scopes /\ s.scope # "me"))

compile_scopes(db_user, user) ==
    IF db_user.role # "superadmin"
    THEN pop_scopes(add_or_update(scopes_dict_of(db_user.allowed_scopes), user.scopes),
                    user.remove_scopes)
    ELSE db_user.allowed_scopes

UserUpdate(is_active, scopes, remove_scopes) ==
    [email |-> None, fullname |-> None, is_active |-> is_active,
     scopes |-> scopes, remove_scopes |-> remove_scopes]

\* bodies of PUT /admin/users/{id}: a grant added, a grant deactivated, grants
\* removed, the user deactivated, and two bodies the validator refuses
UserUpdates ==
    { UserUpdate(TRUE, << UserScopeDB("admin.assign", TRUE) >>, {}),
      UserUpdate(TRUE, << UserScopeDB("me", FALSE) >>, {}),
      UserUpdate(TRUE, <<>>, {"me", "admin.assign"}),
      UserUpdate(FALSE, <<>>, {}),
      UserUpdate(TRUE, << UserScopeDB("users.delete", TRUE) >>, {}),
      UserUpdate(TRUE, << UserScopeDB("me", TRUE) >>, {"me"}) }

update_user_handler(current_user, user_id, user) ==
    LET db_user == db_get(users, user_id)
    IN IF ~UserUpdate_valid(user)
       THEN Raise(Response(422, "validation", "", "none"))
       ELSE IF db_user = NoUser
       THEN Raise(Response(404, "User not found", "", "update_user"))
       ELSE Result(Response(200, "", "", "update_user"),
                   [users EXCEPT ![user_id] =
                        [db_user EXCEPT !.email = user.email,
                                        !.fullname = user.fullname,
                                        !.is_active = user.is_active,
                                        !.allowed_scopes = compile_scopes(db_user, user)]],
                   tokens, bearers)

update_user_result(authorization, user_id, user) ==
    Route(users_update_dependency(authorization),
          update_user_handler(users_update_dependency(authorization).user, user_id, user))

update_user(authorization) ==
    LET current == users_update_dependency(authorization)
    IN IF ~current.ok THEN Refused(current)
       ELSE \E user_id \in UserIds, user \in UserUpdates :
                Commit(update_user_handler(current.user, user_id, user))

\* set_user_as_admin without the check of the caller's own id
set_user_as_admin_handler_without_self_check(current_user, user_id) ==
    _set_admin_role(user_id, TRUE, "set_user_as_admin")

set_user_as_admin_handler(current_user, user_id) ==
    IF user_id = current_user.id
    THEN Raise(Response(403, "You cannot set admin privileges for yourself",
                        "", "set_user_as_admin"))
    ELSE _set_admin_role(user_id, TRUE, "set_user_as_admin")

set_user_as_admin_result(authorization, user_id) ==
    Route(admin_assign_dependency(authorization),
          set_user_as_admin_handler(admin_assign_dependency(authorization).user, user_id))

set_user_as_admin(authorization) ==
    LET current == admin_assign_dependency(authorization)
    IN IF ~current.ok THEN Refused(current)
       ELSE \E user_id \in UserIds :
                Commit(set_user_as_admin_handler(current.user, user_id))

unset_user_as_admin_handler(current_user, user_id) ==
    IF user_id = current_user.id
    THEN Raise(Response(403,
                        "You cannot remove admin privileges from yourself by yourself",
                        "", "unset_user_as_admin"))
    ELSE _set_admin_role(user_id, FALSE, "unset_user_as_admin")

unset_user_as_admin_result(authorization, user_id) ==
    Route(admin_assign_dependency(authorization),
          unset_user_as_admin_handler(admin_assign_dependency(authorization).user, user_id))

unset_user_as_admin(authorization) ==
    LET current == admin_assign_dependency(authorization)
    IN IF ~current.ok THEN Refused(current)
       ELSE \E user_id \in UserIds :
                Commit(unset_user_as_admin_handler(current.user, user_id))

Next ==
    \/ lifespan
    \/ Tick
    \/ \E request \in TokenRequests : get_token(request.form_data, request.basic_creds)
    \/ \E authorization \in Headers : read_users_me(authorization)
    \/ \E authorization \in Headers : update_users_me(authorization)
    \/ \E authorization \in Headers : change_password(authorization)
    \/ \E authorization \in Headers : get_all_users(authorization)
    \/ \E authorization \in Headers : get_user(authorization)
    \/ \E authorization \in Headers : create_user(authorization)
    \/ \E authorization \in Headers : update_user(authorization)
    \/ \E authorization \in Headers : set_user_as_admin(authorization)
    \/ \E authorization \in Headers : unset_user_as_admin(authorization)

Spec == Init /\ [][Next]_vars

(***************************************************************************)
(* get_current_user over the stores it may be handed.  Rows of the users   *)
(* table can be deleted and re-inserted beside the API, as the fixtures of *)
(* src/test/utils.py do, which leaves token records whose user is gone or  *)
(* has another id; the API alone never produces such a store.              *)
(***************************************************************************)
StoredMember(is_active, me_is_active) ==
    [id |-> 2, username |-> "alice1", email |-> None,
     password |-> get_password_hash("Passw0rd!"), fullname |-> None,
     is_active |-> is_active, role |-> "user",
     allowed_scopes |-> <<UserScopeDB("me", me_is_active)>>]

StoredUsers ==
    {create_initial_admin_user(<<>>)}
        \cup {Append(create_initial_admin_user(<<>>), StoredMember(a, m)) :
                a \in BOOLEAN, m \in BOOLEAN}

\* one token issued at time 0 to either username, its record owned by any id
StoredTokens ==
    [record : [token : {1}, user_id : UserIds, timestamp : {0},
               expired_at : {total_seconds(access_token_expire_minutes)},
               is_revoked : {FALSE}],
     bearer : {create_access_token([iss |-> "client", sub |-> sub, jti |-> 1],
                                   total_seconds(access_token_expire_minutes), 0) :
                    sub \in {first_admin_username} \cup NewUsernames}]

InitStage2 ==
    \/ Init
    \/ /\ users \in StoredUsers
       /\ \E issued \in StoredTokens :
            /\ tokens = <<issued.record>>
            /\ bearers = <<issued.bearer>>
       /\ now = 0
       /\ booted = TRUE
       /\ inflight = <<>>

SpecStage2 == InitStage2 /\ [][Next]_vars

(***************************************************************************)
(* POST /admin/users served by several workers at once: a request runs its *)
(* username query (src/app/routes/admin/users.py line 95) against the      *)
(* store of that moment and its db.commit() (line 127) against the store   *)
(* of a later one, with the requests of other workers in between.  The     *)
(* insert is then subject to the unique index of users.username.           *)
(***************************************************************************)
\* a unique index that lets every insert through
unique_username_violated_never(db_users, username) == FALSE

\* src/app/models.py: username = Column(..., unique=True): the insert of a row
\* with this username fails with IntegrityError
unique_username_violated(db_users, username) ==
    \E i \in 1..Len(db_users) : db_users[i].username = username

RemoveAt(seq, k) == SubSeq(seq, 1, k - 1) \o SubSeq(seq, k + 1, Len(seq))

\* create_user up to its username query; a request that passes it is in flight
create_user_begin(authorization) ==
    LET current == users_write_dependency(authorization)
    IN IF ~current.ok THEN Refused(current)
       ELSE \E user \in UserCreates : \E order \in Orderings(user.scopes) :
                IF create_user_handler(current.user, user, order).response.status # 201
                THEN Commit(create_user_handler(current.user, user, order))
                ELSE /\ Len(inflight) < MaxInflight
                     /\ inflight' = Append(inflight, [user |-> user, order |-> order])
                     /\ UNCHANGED <<users, tokens, bearers, now, booted>>

\* create_user from db.add to db.commit of the k-th request in flight: the row
\* and its grants are inserted, or the unique index refuses the row and the
\* transaction is rolled back.  The index bounds the table by the usernames.
create_user_commit(k) ==
    LET request == inflight[k]
    IN /\ inflight' = RemoveAt(inflight, k)
       /\ IF unique_username_violated(users, request.user.username)
          THEN users' = users
          ELSE users' = Append(users, create_user_row(request.user, request.order,
                                                      Len(users) + 1))
       /\ UNCHANGED <<tokens, bearers, now, booted>>

NextCreate ==
    \/ lifespan
    \/ Tick
    \/ \E request \in TokenRequests : get_token(request.form_data, request.basic_creds)
    \/ \E authorization \in Headers : create_user_begin(authorization)
    \/ \E k \in 1..Len(inflight) : create_user_commit(k)

SpecCreate == Init /\ [][NextCreate]_vars

(***************************************************************************)
(* Requests of several workers on sessions of their own.  A session made   *)
(* by SessionLocal (autocommit=False) keeps the statements it executes in  *)
(* its transaction until db.commit(); when the worker dies or the session  *)
(* is closed before that, the transaction is rolled back.  POST /token is  *)
(* split between authenticate_user and the insert of the record,           *)
(* change_password after each of its two UPDATE statements.                *)
(***************************************************************************)
\* the users table as other sessions see it after a session whose statements
\* commit one by one has executed the password UPDATE
persisted_after_update_autocommit(db_users, user_id, password) ==
    [db_users EXCEPT ![user_id].password = password]

\* the users table as other sessions see it after a session of SessionLocal
\* has executed the password UPDATE: the statement stays in the transaction
persisted_after_update(db_users, user_id, password) == db_users

InFlight(op, pc, user_id, password, revoked) ==
    [op |-> op, pc |-> pc, user_id |-> user_id, password |-> password,
     revoked |-> revoked]

\* get_token up to authenticate_user; the request remembers the user it found
\* and the digest it verified the secret against
get_token_authenticate(form_data, basic_creds) ==
    LET result == get_token_result(form_data, basic_creds)
        user_id == result.tokens[Len(result.tokens)].user_id
    IN IF result.response.status # 200 THEN Commit(result)
       ELSE /\ booted
            /\ Len(inflight) < MaxInflight
            /\ inflight' = Append(inflight,
                                  InFlight("get_token", "authenticate_user", user_id,
                                           users[user_id].password, {}))
            /\ UNCHANGED <<users, tokens, bearers, now, booted>>

\* get_token from create_access_token to db.commit() for the authenticated user
get_token_issue(user_id) ==
    LET access_token_expires == total_seconds(access_token_expire_minutes)
        token_id == Len(tokens) + 1
        access_token ==
            create_access_token(
                [iss |-> "client", sub |-> users[user_id].username, jti |-> token_id],
                access_token_expires, now)
        unixtime == now
        token == [token |-> token_id,
                  user_id |-> user_id,
                  timestamp |-> unixtime,
                  expired_at |-> unixtime + access_token_expires,
                  is_revoked |-> FALSE]
    IN Result(Response(200, "", "", "get_token"),
              users, Append(tokens, token), Append(bearers, access_token))

get_token_commit(k) ==
    /\ inflight[k].op = "get_token"
    /\ Len(tokens) < MaxTokens
    /\ users' = get_token_issue(inflight[k].user_id).users
    /\ tokens' = get_token_issue(inflight[k].user_id).tokens
    /\ bearers' = get_token_issue(inflight[k].user_id).bearers
    /\ inflight' = RemoveAt(inflight, k)
    /\ UNCHANGED <<now, booted>>

\* change_password up to its first statement, the UPDATE of the password
change_password_update_password(authorization) ==
    LET current == profile_dependency(authorization)
    IN IF ~current.ok THEN Refused(current)
       ELSE \E input \in PasswordChanges :
                LET result == change_password_handler(current.user, input)
                    password == get_password_hash(input.new_password)
                IN IF result.response.status # 204 THEN Commit(result)
                   ELSE /\ Len(inflight) < MaxInflight
                        /\ inflight' = Append(inflight,
                                              InFlight("change_password", "update_password",
                                                       current.user.id, password, {}))
                        /\ users' = persisted_after_update(users, current.user.id, password)
                        /\ UNCHANGED <<tokens, bearers, now, booted>>

\* the second statement, the UPDATE that flags the user's active records
change_password_revoke_access_tokens(k) ==
    LET request == inflight[k]
        flagged == revoke_access_tokens(tokens, request.user_id, now)
    IN /\ request.op = "change_password"
       /\ request.pc = "update_password"
       /\ inflight' = [inflight EXCEPT ![k] =
                          [request EXCEPT
                              !.pc = "revoke_access_tokens",
                              !.revoked = {i \in 1..Len(tokens) :
                                              flagged[i].is_revoked # tokens[i].is_revoked}]]
       /\ UNCHANGED <<users, tokens, bearers, now, booted>>

\* db.commit(): both statements reach the store
change_password_commit(k) ==
    LET request == inflight[k]
    IN /\ request.op = "change_password"
       /\ request.pc = "revoke_access_tokens"
       /\ users' = [users EXCEPT ![request.user_id].password = request.password]
       /\ tokens' = [i \in 1..Len(tokens) |->
                        IF i \in request.revoked
                        THEN [tokens[i] EXCEPT !.is_revoked = TRUE]
                        ELSE tokens[i]]
       /\ inflight' = RemoveAt(inflight, k)
       /\ UNCHANGED <<bearers, now, booted>>

\* the worker dies before db.commit(), or the middleware closes the session of
\* a request that did not get there: the transaction is rolled back
crash(k) ==
    /\ inflight' = RemoveAt(inflight, k)
    /\ UNCHANGED <<users, tokens, bearers, now, booted>>

NextSession ==
    \/ lifespan
    \/ Tick
    \/ \E request \in TokenRequests :
            get_token_authenticate(request.form_data, request.basic_creds)
    \/ \E k \in 1..Len(inflight) : get_token_commit(k)
    \/ \E authorization \in Headers : change_password_update_password(authorization)
    \/ \E k \in 1..Len(inflight) : change_password_revoke_access_tokens(k)
    \/ \E k \in 1..Len(inflight) : change_password_commit(k)
    \/ \E k \in 1..Len(inflight) : crash(k)

SpecSession == Init /\ [][NextSession]_vars

(***************************************************************************)
(* Properties.                                                             *)
(***************************************************************************)
\* the bearer tokens issued with the access token record `record`
BearersOf(record) == {t \in IssuedTokens : t.jti = record.token}

\* the step from the current state is the commit of `result`
Committed(result) ==
    /\ users' = result.users
    /\ tokens' = result.tokens
    /\ bearers' = result.bearers
    /\ now' = now

\* the step from the current state commits change_password_handler for the
\* authenticated caller `current_user` and body `input`, answering 204
PasswordChanged(current_user, input) ==
    LET result == change_password_handler(current_user, input)
    IN result.response.status = 204 /\ Committed(result)

\* a step that changes the store but leaves the clock, the issued tokens and the
\* number of users alone, as every non-stuttering step of change_password does
InPlace ==
    /\ now' = now
    /\ bearers' = bearers
    /\ Len(users') = Len(users)
    /\ (users' # users \/ tokens' # tokens)

\* C1: after a successful change-password by user U, every bearer token issued
\* to U before the change is rejected by validate_token, whatever its remaining
\* lifetime.
C1_PasswordChangeRejectsEveryToken ==
    [][InPlace =>
        \A authorization \in Headers :
            LET current == profile_dependency(authorization)
            IN current.ok =>
                \A input \in PasswordChanges :
                    PasswordChanged(current.user, input)
                        => \A t \in IssuedTokens :
                                t.sub = current.user.username
                                    => ~validate_token(tokens', BearerHeader(t), now').ok]_vars

\* C2: a successful change-password by user U sets is_revoked on every record of
\* U that was non-revoked and not is_expired at that moment, and from then on
\* validate_token answers 401 to the bearer tokens of each such record.
C2_PasswordChangeRevokesActiveTokens ==
    /\ [][InPlace =>
            \A authorization \in Headers :
                LET current == profile_dependency(authorization)
                IN current.ok =>
                    \A input \in PasswordChanges :
                        PasswordChanged(current.user, input)
                            => \A i \in 1..Len(tokens) :
                                    (/\ tokens[i].user_id = current.user.id
                                     /\ ~tokens[i].is_revoked
                                     /\ ~is_expired(tokens[i], now))
                                        => tokens'[i].is_revoked]_vars
    /\ [][\A i \in 1..Len(tokens) : tokens[i].is_revoked => tokens'[i].is_revoked]_vars
    /\ [](\A i \in 1..Len(tokens) :
            tokens[i].is_revoked
                => \A t \in BearersOf(tokens[i]) :
                        LET validated == validate_token(tokens, BearerHeader(t), now)
                        IN ~validated.ok /\ validated.response.status = 401)

\* a record revoked by change-password whose bearer token has not reached its exp
C2_Witness ==
    \E i \in 1..Len(tokens) :
        /\ tokens[i].is_revoked
        /\ \E t \in BearersOf(tokens[i]) :
                /\ t.exp > now
                /\ validate_token(tokens, BearerHeader(t), now).response.status = 401

\* the user holds a grant of `scope`, active or not
HoldsGrant(user, scope) ==
    \E k \in 1..Len(user.allowed_scopes) : user.allowed_scopes[k].scope = scope

\* C3: no set-admin or unset-admin call, by any authorized actor, changes the
\* role of a user whose role is superadmin.
C3_SuperadminNeverDemoted ==
    [][\A authorization \in Headers :
            LET current == admin_assign_dependency(authorization)
            IN current.ok =>
                \A user_id \in UserIds :
                    (\/ Committed(set_user_as_admin_handler(current.user, user_id))
                     \/ Committed(unset_user_as_admin_handler(current.user, user_id)))
                        => \A i \in 1..Len(users) :
                                users[i].role = "superadmin"
                                    => users'[i].role = "superadmin"]_vars

\* C4: once bootstrap has run, every reachable state contains at least one user
\* with role superadmin.
C4_SuperadminExists ==
    booted => \E i \in 1..Len(users) : users[i].role = "superadmin"

\* C5: PUT /admin/users/{id} never adds an admin-tier scope: after the update
\* the target user holds an admin.assign grant only if it held one before.
C5_UpdateNeverAddsAdminScope ==
    [][\A authorization \in Headers :
            LET current == users_update_dependency(authorization)
            IN current.ok =>
                \A user_id \in UserIds, user \in UserUpdates :
                    LET result == update_user_handler(current.user, user_id, user)
                    IN (result.response.status = 200 /\ Committed(result))
                        => (HoldsGrant(users'[user_id], "admin.assign")
                                => HoldsGrant(users[user_id], "admin.assign"))]_vars

\* the record of the token id the bearer token carries is revoked
RecordRevoked(t) ==
    \E i \in 1..Len(tokens) : tokens[i].token = t.jti /\ tokens[i].is_revoked

\* some non-revoked record carries the token id of the bearer token
RecordLive(t) ==
    \E i \in 1..Len(tokens) : tokens[i].token = t.jti /\ ~tokens[i].is_revoked

\* the outcomes of every request to a /profile or /admin/users route that
\* carries the header, each with the scopes its route declares
ProtectedRequests(authorization) ==
    {[scopes |-> {"me"}, admin |-> FALSE, result |-> read_users_me_result(authorization)]}
    \cup {[scopes |-> {"me"}, admin |-> FALSE,
           result |-> update_users_me_result(authorization, user)] :
                user \in ProfileUpdates}
    \cup {[scopes |-> {"me"}, admin |-> FALSE,
           result |-> change_password_result(authorization, input)] :
                input \in PasswordChanges}
    \cup {[scopes |-> {"users.read"}, admin |-> TRUE,
           result |-> get_all_users_result(authorization)]}
    \cup {[scopes |-> {"users.read"}, admin |-> TRUE,
           result |-> get_user_result(authorization, user_id)] : user_id \in UserIds}
    \cup UNION {{[scopes |-> {"users.write"}, admin |-> TRUE,
                  result |-> create_user_result(authorization, user, order)] :
                        order \in Orderings(user.scopes)} : user \in UserCreates}
    \cup {[scopes |-> {"users.update"}, admin |-> TRUE,
           result |-> update_user_result(authorization, request[1], request[2])] :
                request \in UserIds \X UserUpdates}
    \cup {[scopes |-> {"admin.assign"}, admin |-> TRUE,
           result |-> set_user_as_admin_result(authorization, user_id)] :
                user_id \in UserIds}
    \cup {[scopes |-> {"admin.assign"}, admin |-> TRUE,
           result |-> unset_user_as_admin_result(authorization, user_id)] :
                user_id \in UserIds}

\* the request got into its handler or wrote to the store
HandlerRan(result) ==
    \/ result.response.handler # "none"
    \/ result.users # users
    \/ result.tokens # tokens
    \/ result.bearers # bearers

\* C6: a bearer token whose record has is_revoked = TRUE is rejected by
\* validate_token with 401 even when its signature and exp are valid, and no
\* protected handler runs for it.
C6_RevokedTokenRejected ==
    \A t \in IssuedTokens :
        RecordRevoked(t)
            => /\ ~validate_token(tokens, BearerHeader(t), now).ok
               /\ validate_token(tokens, BearerHeader(t), now).response.status = 401
               /\ \A request \in ProtectedRequests(BearerHeader(t)) :
                    /\ request.result.response.status = 401
                    /\ ~HandlerRan(request.result)

\* a revoked record whose bearer token still decodes and whose owner is active
\* and holds an active "me" grant
C6_Witness ==
    \E t \in IssuedTokens :
        /\ RecordRevoked(t)
        /\ decode_access_token(t, now).error = ""
        /\ \E i \in 1..Len(users) :
                /\ users[i].username = t.sub
                /\ users[i].is_active
                /\ first_scope(users[i].allowed_scopes, "me").is_active

\* C7: a bearer token whose signature is invalid or whose exp has passed is
\* rejected by validate_token with 401, whether or not a matching non-revoked
\* record exists.
C7_BadSignatureOrExpiredRejected ==
    \A t \in IssuedTokens \cup TamperedTokens \cup ForgedTokens :
        (t.sig # "valid" \/ t.exp <= now)
            => /\ ~validate_token(tokens, BearerHeader(t), now).ok
               /\ validate_token(tokens, BearerHeader(t), now).response.status = 401

\* an issued token past its exp, a tampered token and a forged one are all at
\* hand, the first two with a matching non-revoked record, the last with none
C7_Witness ==
    /\ \E t \in IssuedTokens : t.exp <= now /\ RecordLive(t)
    /\ \E t \in TamperedTokens : RecordLive(t)
    /\ \E t \in ForgedTokens : ~RecordLive(t) /\ ~RecordRevoked(t)

\* the user holds a grant of exactly that name with is_active = TRUE
ActiveGrant(user, scope) ==
    \E k \in 1..Len(user.allowed_scopes) :
        user.allowed_scopes[k].scope = scope /\ user.allowed_scopes[k].is_active

\* the scope lists a Security(...) declaration may carry: none, one or two scopes
SecurityScopeSets == {scopes \in SUBSET api_scopes : Cardinality(scopes) <= 2}

\* the token passes stage 1 and names an active user who owns its record
FullyValid(t, user) ==
    LET validated == validate_token(tokens, BearerHeader(t), now)
    IN /\ validated.ok
       /\ user.username = t.sub
       /\ user.is_active
       /\ user.id = validated.tokendata.user_id

\* C8: for every scope an operation requires, get_current_user requires a grant
\* of the user with that name and is_active = TRUE; when a required scope has no
\* grant or only an inactive one, the request fails with 403 'Not enough
\* permissions' although the token is fully valid.
C8_ActiveGrantRequired ==
    \A t \in IssuedTokens : \A i \in 1..Len(users) :
        FullyValid(t, users[i]) =>
            /\ \A scopes \in SecurityScopeSets :
                LET current == CurrentUser(BearerHeader(t), scopes)
                IN IF \A scope \in scopes : ActiveGrant(users[i], scope)
                   THEN current.ok /\ current.user = users[i]
                   ELSE /\ ~current.ok
                        /\ current.response.status = 403
                        /\ current.response.detail = "Not enough permissions"
            /\ \A request \in ProtectedRequests(BearerHeader(t)) :
                (\E scope \in request.scopes : ~ActiveGrant(users[i], scope))
                    => /\ request.result.response.status = 403
                       /\ request.result.response.detail = "Not enough permissions"
                       /\ ~HandlerRan(request.result)

\* a fully valid token of a user whose "me" grant is inactive and who has no
\* users.read grant at all
C8_Witness ==
    \E t \in IssuedTokens : \E i \in 1..Len(users) :
        /\ FullyValid(t, users[i])
        /\ HoldsGrant(users[i], "me")
        /\ ~ActiveGrant(users[i], "me")
        /\ ~HoldsGrant(users[i], "users.read")

\* the user the token's sub names is absent, is inactive, or has an id other
\* than the user_id of the token's record
CredentialsInvalid(t) ==
    LET validated == validate_token(tokens, BearerHeader(t), now)
    IN \A i \in 1..Len(users) :
            users[i].username = t.sub
                => (~users[i].is_active \/ users[i].id # validated.tokendata.user_id)

\* C9: get_current_user fails with 401 'Invalid credentials' whenever the user
\* named by the token's sub is absent, is inactive, or has an id different from
\* the token record's user_id; the check comes before any scope check, so such a
\* request never yields 403 and never reaches a handler.
C9_InvalidCredentialsBeforeScopes ==
    \A t \in IssuedTokens :
        (validate_token(tokens, BearerHeader(t), now).ok /\ CredentialsInvalid(t))
            => /\ \A scopes \in SecurityScopeSets :
                    LET current == CurrentUser(BearerHeader(t), scopes)
                    IN /\ ~current.ok
                       /\ current.response.status = 401
                       /\ current.response.detail = "Invalid credentials"
               /\ \A request \in ProtectedRequests(BearerHeader(t)) :
                    /\ request.result.response.status = 401
                    /\ request.result.response.detail = "Invalid credentials"
                    /\ ~HandlerRan(request.result)

\* a token that passes stage 1 and names an active user with another id than the
\* record's, who moreover holds no active "me" grant
C9_Witness ==
    \E t \in IssuedTokens : \E i \in 1..Len(users) :
        /\ validate_token(tokens, BearerHeader(t), now).ok
        /\ users[i].username = t.sub
        /\ users[i].is_active
        /\ users[i].id # validate_token(tokens, BearerHeader(t), now).tokendata.user_id
        /\ ~ActiveGrant(users[i], "me")

\* C10: no handler of a /profile or /admin/users route executes, and none
\* changes the store, unless in the same request validate_token succeeded and
\* get_current_user then succeeded for the scopes the route declares.
C10_HandlerOnlyAfterBothStages ==
    \A authorization \in Headers :
        \A request \in ProtectedRequests(authorization) :
            HandlerRan(request.result)
                => /\ validate_token(tokens, authorization, now).ok
                   /\ get_current_user(request.scopes,
                                       validate_token(tokens, authorization, now),
                                       users).ok

\* one request passes both stages and writes to the store while, in the same
\* state, one is refused by stage 1 and one by the scope check of stage 2
C10_Witness ==
    /\ \E authorization \in Headers :
            \E request \in ProtectedRequests(authorization) :
                /\ request.result.users # users
                /\ CurrentUser(authorization, request.scopes).ok
    /\ \E authorization \in Headers :
            \E request \in ProtectedRequests(authorization) :
                /\ authorization # NoHeader
                /\ ~validate_token(tokens, authorization, now).ok
                /\ ~HandlerRan(request.result)
    /\ \E authorization \in Headers :
            \E request \in ProtectedRequests(authorization) :
                /\ validate_token(tokens, authorization, now).ok
                /\ request.result.response.status = 403
                /\ request.scopes = {"me"}
                /\ ~HandlerRan(request.result)

\* C11: every successful POST /token inserts exactly one access token record,
\* whose token is the jti of the returned bearer token, whose user_id is the id
\* of the authenticated user and whose expired_at is its timestamp plus the
\* configured lifetime in seconds; no other record is inserted or modified.
C11_TokenIssueInsertsOneRecord ==
    [][(now' = now /\ (tokens' # tokens \/ bearers' # bearers)) =>
        \A request \in TokenRequests :
            LET result == get_token_result(request.form_data, request.basic_creds)
                presented == {request.form_data, request.basic_creds}
            IN (result.response.status = 200 /\ Committed(result))
                => /\ Len(tokens') = Len(tokens) + 1
                   /\ SubSeq(tokens', 1, Len(tokens)) = tokens
                   /\ Len(bearers') = Len(bearers) + 1
                   /\ users' = users
                   /\ LET record == tokens'[Len(tokens')]
                          bearer == bearers'[Len(bearers')]
                      IN /\ record.token = bearer.jti
                         /\ \A i \in 1..Len(tokens) : tokens[i].token # record.token
                         /\ record.timestamp = now
                         /\ record.expired_at
                                = record.timestamp + access_token_expire_minutes * 60
                         /\ ~record.is_revoked
                         /\ \E i \in 1..Len(users), creds \in presented :
                                /\ users[i].username = creds.client_id
                                /\ verify_password(creds.client_secret, users[i].password)
                                /\ users[i].is_active
                                /\ record.user_id = users[i].id
                                /\ bearer.sub = users[i].username]_vars

\* a second record issued later than the first, to the created user
C11_Witness ==
    /\ Len(tokens) = 2
    /\ tokens[2].timestamp > tokens[1].timestamp
    /\ tokens[2].user_id # tokens[1].user_id
    /\ bearers[2].jti = tokens[2].token

\* the requests to POST /token that present one pair of credentials, in the form
\* or in the Basic header, each with the pair it presents
SinglePairRequests ==
    {[request |-> request,
      creds |-> IF request.basic_creds = NoCreds THEN request.form_data
                ELSE request.basic_creds] :
        request \in {r \in TokenRequests :
                        (r.form_data = NoCreds) # (r.basic_creds = NoCreds)}}

UnknownClient(creds) ==
    ~\E i \in 1..Len(users) : users[i].username = creds.client_id

WrongSecret(creds) ==
    \E i \in 1..Len(users) :
        /\ users[i].username = creds.client_id
        /\ ~verify_password(creds.client_secret, users[i].password)

InactiveClient(creds) ==
    \E i \in 1..Len(users) :
        /\ users[i].username = creds.client_id
        /\ verify_password(creds.client_secret, users[i].password)
        /\ ~users[i].is_active

\* C12: POST /token gives the identical response (400, detail 'Not
\* authenticated', no challenge header) for an unknown client_id, for a wrong
\* client_secret of an existing user and for the correct credentials of an
\* inactive user, and creates no access token record in any of these cases.
C12_TokenFailuresIndistinguishable ==
    \A single \in SinglePairRequests :
        (\/ UnknownClient(single.creds)
         \/ WrongSecret(single.creds)
         \/ InactiveClient(single.creds))
            => LET result == get_token_result(single.request.form_data,
                                              single.request.basic_creds)
               IN /\ result.response.status = 400
                  /\ result.response.detail = "Not authenticated"
                  /\ result.response.challenge = ""
                  /\ result.tokens = tokens
                  /\ result.bearers = bearers
                  /\ result.users = users

\* the three cases are at hand in one state: an unknown client_id, a wrong
\* secret of an existing user and the correct credentials of an inactive user
C12_Witness ==
    /\ \E single \in SinglePairRequests : UnknownClient(single.creds)
    /\ \E single \in SinglePairRequests : WrongSecret(single.creds)
    /\ \E single \in SinglePairRequests : InactiveClient(single.creds)

\* the requests to the /admin/users routes that carry the header
AdminRequests(authorization) ==
    {request \in ProtectedRequests(authorization) : request.admin}

\* C13: an /admin/users operation executes only when the caller's role is admin
\* or superadmin and the caller holds an active grant of the route's scope
\* (users.read for list and get, users.write for create, users.update for
\* update, admin.assign for set-admin and unset-admin); a caller failing either
\* condition gets 403 and nothing changes.
C13_AdminRoutesNeedRoleAndScope ==
    \A t \in IssuedTokens : \A i \in 1..Len(users) :
        FullyValid(t, users[i]) =>
            \A request \in AdminRequests(BearerHeader(t)) :
                LET permitted ==
                        /\ users[i].role \in {"admin", "superadmin"}
                        /\ \A scope \in request.scopes : ActiveGrant(users[i], scope)
                IN /\ HandlerRan(request.result) => permitted
                   /\ ~permitted
                        => /\ request.result.response.status = 403
                           /\ ~HandlerRan(request.result)

\* two fully valid tokens: one of a user with role user who holds active
\* admin.assign and users.update grants, one of an admin without users.update
C13_Witness ==
    /\ \E t \in IssuedTokens : \E i \in 1..Len(users) :
            /\ FullyValid(t, users[i])
            /\ users[i].role = "user"
            /\ ActiveGrant(users[i], "admin.assign")
            /\ ActiveGrant(users[i], "users.update")
    /\ \E t \in IssuedTokens : \E i \in 1..Len(users) :
            /\ FullyValid(t, users[i])
            /\ users[i].role \in {"admin", "superadmin"}
            /\ ~ActiveGrant(users[i], "users.update")

\* C14: set-admin or unset-admin whose target id is the caller's own id is
\* rejected with 403 and changes no user's role, whatever the caller's role
\* and scopes.
C14_NoSelfAdminChange ==
    \A t \in IssuedTokens : \A i \in 1..Len(users) :
        FullyValid(t, users[i]) =>
            \A result \in {set_user_as_admin_result(BearerHeader(t), users[i].id),
                            unset_user_as_admin_result(BearerHeader(t), users[i].id)} :
                /\ result.response.status = 403
                /\ Len(result.users) = Len(users)
                /\ \A j \in 1..Len(users) : result.users[j].role = users[j].role

\* fully valid tokens of two callers who pass the dependencies of the route,
\* an admin and a superadmin, each holding an active admin.assign grant
C14_Witness ==
    \A role \in {"admin", "superadmin"} :
        \E t \in IssuedTokens : \E i \in 1..Len(users) :
            /\ FullyValid(t, users[i])
            /\ users[i].role = role
            /\ ActiveGrant(users[i], "admin.assign")

\* C15: after any sequence of admin create and update operations every user
\* still has a "me" grant: a remove_scopes entry "me" of PUT /admin/users/{id}
\* is ignored and no other operation deletes the grant.
C15_MeGrantKept ==
    \A i \in 1..Len(users) : HoldsGrant(users[i], "me")

\* a created user whose admin.assign grant was removed by the update body that
\* also names "me" for removal
C15_Witness ==
    \E i \in 1..Len(users) :
        /\ users[i].role # "superadmin"
        /\ HoldsGrant(users[i], "users.update")
        /\ ~HoldsGrant(users[i], "admin.assign")
        /\ HoldsGrant(users[i], "me")
        /\ \E user \in UserUpdates : {"me", "admin.assign"} \subseteq user.remove_scopes

\* C16: POST /admin/users with valid input creates a user whose grants are
\* exactly the requested scopes plus "me" (added when not requested), each with
\* is_active = TRUE and each appearing once.
C16_CreatedGrantsAreRequestedPlusMe ==
    [][(now' = now /\ Len(users') = Len(users) + 1) =>
        \A authorization \in Headers :
            LET current == users_write_dependency(authorization)
            IN current.ok =>
                \A user \in UserCreates : \A order \in Orderings(user.scopes) :
                    LET result == create_user_handler(current.user, user, order)
                    IN (result.response.status = 201 /\ Committed(result))
                        => LET granted == users'[Len(users')].allowed_scopes
                           IN /\ {granted[k].scope : k \in 1..Len(granted)}
                                    = user.scopes \cup {"me"}
                              /\ \A k \in 1..Len(granted) : granted[k].is_active
                              /\ Len(granted) = Cardinality(user.scopes \cup {"me"})
                              /\ users'[Len(users')].username = user.username
                              /\ SubSeq(users', 1, Len(users)) = users]_vars

\* a user just created with two requested scopes and the added "me", while a
\* body that requests "me" itself is among the inputs
C16_Witness ==
    /\ \E i \in 1..Len(users) :
            /\ users[i].role = "user"
            /\ Len(users[i].allowed_scopes) = 3
            /\ \A scope \in {"admin.assign", "users.update", "me"} :
                    ActiveGrant(users[i], scope)
    /\ \E user \in UserCreates : "me" \in user.scopes /\ UserCreate_valid(user)

\* some user of the store has role superadmin
HasSuperadmin(db_users) ==
    \E i \in 1..Len(db_users) : db_users[i].role = "superadmin"

\* C17: whenever bootstrap runs in a state in which no user has role
\* superadmin, it creates a user with the configured initial username and role
\* superadmin, so a superadmin exists when bootstrap returns.
C17_BootstrapRestoresSuperadmin ==
    ~HasSuperadmin(users)
        => \E i \in 1..Len(create_initial_admin_user(users)) :
                /\ create_initial_admin_user(users)[i].username = first_admin_username
                /\ create_initial_admin_user(users)[i].role = "superadmin"

\* C18: the superadmin created by bootstrap holds an active grant for every
\* scope of the registry of recognized scopes, so it passes the scope check of
\* every protected route.
C18_BootstrapGrantsEveryScope ==
    \A i \in 1..Len(users) :
        users[i].role = "superadmin"
            => \A scope \in api_scopes : ActiveGrant(users[i], scope)

\* C19: bootstrap is idempotent: running it again after it has run once leaves
\* the store unchanged (same number of users, same superadmin id, same grants).
C19_BootstrapIdempotent ==
    /\ [](booted => create_initial_admin_user(users) = users)
    /\ [][(booted /\ lifespan) => UNCHANGED <<users, tokens, bearers>>]_vars

\* bootstrap has run and the store has since grown by a user and a token
C19_Witness ==
    /\ booted
    /\ Len(users) = 2
    /\ Len(tokens) > 0
    /\ \E i \in 1..Len(users) :
            users[i].username = first_admin_username /\ users[i].id = 1

\* the username is registered in the store
Registered(db_users, username) ==
    \E i \in 1..Len(db_users) : db_users[i].username = username

\* C20: no two users ever share a username, in every reachable state and under
\* every interleaving of concurrent POST /admin/users requests for the same
\* username; a create for an already-registered username adds no user and no
\* scope grant.
C20_UsernameUnique ==
    /\ [](\A i, j \in 1..Len(users) :
            users[i].username = users[j].username => i = j)
    /\ [](\A authorization \in Headers :
            \A user \in UserCreates : \A order \in Orderings(user.scopes) :
                Registered(users, user.username)
                    => create_user_result(authorization, user, order).users = users)
    /\ [][\A k \in 1..Len(inflight) :
            (create_user_commit(k) /\ Registered(users, inflight[k].user.username))
                => users' = users]_vars

\* a user was inserted while another request for the same username, which had
\* passed its username query, is still in flight
C20_Witness ==
    \E k \in 1..Len(inflight) :
        /\ Registered(users, inflight[k].user.username)
        /\ Len(users) = 2

\* C21: access token records are only ever created or revoked: once a record
\* has is_revoked = TRUE no operation sets it back, and no operation deletes a
\* record or changes its token, user_id or expired_at.
C21_RecordsOnlyCreatedOrRevoked ==
    [][/\ Len(tokens') >= Len(tokens)
       /\ \A i \in 1..Len(tokens) :
            /\ tokens'[i].token = tokens[i].token
            /\ tokens'[i].user_id = tokens[i].user_id
            /\ tokens'[i].expired_at = tokens[i].expired_at
            /\ tokens[i].is_revoked => tokens'[i].is_revoked]_vars

\* a revoked record beside a record issued afterwards that is not revoked
C21_Witness ==
    /\ Len(tokens) = 2
    /\ tokens[1].is_revoked
    /\ ~tokens[2].is_revoked
    /\ tokens[1].user_id = tokens[2].user_id

\* C22: change-password with an old_password that does not verify against the
\* caller's stored hash is rejected with 400 'Cannot change password' and
\* leaves the stored password hash and the is_revoked flag of every record
\* unchanged.  The bodies are those the schema UserChangePassword accepts.
C22_WrongOldPasswordRejected ==
    \A t \in IssuedTokens : \A i \in 1..Len(users) :
        (FullyValid(t, users[i]) /\ ActiveGrant(users[i], "me")) =>
            \A input \in PasswordChanges :
                (/\ UserChangePassword_valid(input)
                 /\ users[i].password # get_password_hash(input.old_password))
                    => LET result == change_password_result(BearerHeader(t), input)
                       IN /\ result.response.status = 400
                          /\ result.response.detail = "Cannot change password"
                          /\ result.response.handler = "change_password"
                          /\ \A j \in 1..Len(users) :
                                result.users[j].password = users[j].password
                          /\ Len(result.tokens) = Len(tokens)
                          /\ \A k \in 1..Len(tokens) :
                                result.tokens[k].is_revoked = tokens[k].is_revoked

\* a caller who has changed the password before, holding a live token beside a
\* revoked one, with a schema-valid body whose old_password is the former one
C22_Witness ==
    \E t \in IssuedTokens : \E i \in 1..Len(users) :
        /\ FullyValid(t, users[i])
        /\ ActiveGrant(users[i], "me")
        /\ users[i].password = get_password_hash("N3w-Pass")
        /\ \E k \in 1..Len(tokens) : tokens[k].is_revoked
        /\ \E input \in PasswordChanges :
                /\ UserChangePassword_valid(input)
                /\ input.old_password = first_admin_password

\* bodies of PATCH /profile: each field null, empty or set
ProfileBodies == [email : {None, "", "b@x.io"}, fullname : {None, "", "Al"}]

AllTokenRequests ==
    [form_data : [client_id : {"", first_admin_username, "nobody"} \cup NewUsernames,
                  client_secret : {""} \cup Passwords],
     basic_creds : Credentials]

\* the credentials `creds` are those of an active user
Authenticates(creds) ==
    \E i \in 1..Len(users) :
        /\ users[i].username = creds.client_id
        /\ verify_password(creds.client_secret, users[i].password)
        /\ users[i].is_active

\* C25: POST /token uses the form fields client_id and client_secret when both
\* are non-empty and then ignores any Basic header (no fallback when the form
\* credentials fail); otherwise it uses the Basic credentials when present;
\* when neither is present it answers 400 'Not authenticated' with
\* WWW-Authenticate: Basic and creates no record.
C25_FormCredentialsBeforeBasic ==
    \A request \in AllTokenRequests :
        LET form == request.form_data
            basic == request.basic_creds
            result == get_token_result(form, basic)
            issued_to(creds) ==
                /\ result.response.status = 200
                /\ Len(result.tokens) = Len(tokens) + 1
                /\ users[result.tokens[Len(result.tokens)].user_id].username
                        = creds.client_id
            refused ==
                /\ result.response.status = 400
                /\ result.response.detail = "Not authenticated"
                /\ result.tokens = tokens
                /\ result.bearers = bearers
            decided_by(creds) ==
                IF Authenticates(creds) THEN issued_to(creds)
                ELSE refused /\ result.response.challenge = ""
        IN IF form.client_id # "" /\ form.client_secret # "" THEN decided_by(form)
           ELSE IF basic # NoCreds THEN decided_by(basic)
           ELSE refused /\ result.response.challenge = "Basic"

\* a Basic header that would authenticate behind form fields that do not, and
\* behind form fields of another user that do
C25_Witness ==
    /\ Len(users) = 2
    /\ \E request \in AllTokenRequests :
           /\ request.form_data.client_id = "nobody"
           /\ request.form_data.client_secret # ""
           /\ Authenticates(request.basic_creds)
    /\ \E request \in AllTokenRequests :
           /\ Authenticates(request.form_data)
           /\ Authenticates(request.basic_creds)
           /\ request.form_data.client_id # request.basic_creds.client_id

\* C26: a user's role changes only through set-admin / unset-admin invoked by
\* a different user who has role admin or superadmin and an active
\* admin.assign grant; profile PATCH, change-password, admin create and admin
\* update leave the role of every existing user unchanged, every user created
\* through admin create has role 'user', and every role value is one of user,
\* admin, superadmin.
C26_RoleChangesOnlyThroughAssign ==
    /\ [](\A i \in 1..Len(users) : users[i].role \in {"user", "admin", "superadmin"})
    /\ [][(now' = now /\ Len(users') = Len(users)
                /\ \E i \in 1..Len(users) : users'[i].role # users[i].role) =>
            \E authorization \in Headers :
                LET current == admin_assign_dependency(authorization)
                IN /\ current.ok
                   /\ current.user.role \in {"admin", "superadmin"}
                   /\ ActiveGrant(current.user, "admin.assign")
                   /\ \E user_id \in UserIds :
                          /\ user_id # current.user.id
                          /\ \A i \in 1..Len(users) :
                                 users'[i].role # users[i].role => i = user_id
                          /\ \/ Committed(set_user_as_admin_handler(current.user, user_id))
                             \/ Committed(unset_user_as_admin_handler(current.user,
                                                                      user_id))]_vars
    /\ [][(now' = now /\ Len(users') = Len(users) + 1) =>
            /\ \A i \in 1..Len(users) : users'[i].role = users[i].role
            /\ booted => users'[Len(users')].role = "user"]_vars
    /\ [][(Len(users') # Len(users) \/ now' # now) =>
            \A i \in 1..Len(users) : i <= Len(users') /\ users'[i].role = users[i].role]_vars

\* a created user who was made an administrator and whose profile was changed,
\* beside the superadmin of the bootstrap
C26_Witness ==
    /\ Len(users) = 2
    /\ users[2].role = "admin"
    /\ users[2].email = "a@x.io"
    /\ users[1].role = "superadmin"

\* C28: after any sequence of admin create and update operations every user
\* holds a 'me' grant with is_active = true: PUT /admin/users/{id} can neither
\* remove nor deactivate the 'me' grant.
C28_MeGrantActive ==
    \A i \in 1..Len(users) : ActiveGrant(users[i], "me")

\* bodies of PUT /admin/users/{id} listing up to two grants, the same scope
\* twice among them, with and without removals
RepeatedScopeUpdates ==
    LET listed == {UserScopeDB(scope, active) :
                        scope \in {"me", "users.read"}, active \in BOOLEAN}
    IN {UserUpdate(TRUE, scopes, remove_scopes) :
            scopes \in {<<>>} \cup {<<a>> : a \in listed}
                                \cup {<<a, b>> : a \in listed, b \in listed},
            remove_scopes \in {{}, {"me"}, {"users.read"}, {"admin.assign"}}}

\* no two grants of the list carry the same scope name, and every name is in
\* the registry
GrantsWellFormed(allowed_scopes) ==
    /\ \A k, l \in 1..Len(allowed_scopes) :
            k # l => allowed_scopes[k].scope # allowed_scopes[l].scope
    /\ \A k \in 1..Len(allowed_scopes) : allowed_scopes[k].scope \in api_scopes

C30_RecordOwnerIsTokenSubject ==
    /\ [](\A k \in 1..Len(tokens) : \A t \in BearersOf(tokens[k]) :
            \E i \in 1..Len(users) :
                users[i].username = t.sub /\ users[i].id = tokens[k].user_id)
    /\ [](\A i, j \in 1..Len(users) :
            i # j => users[i].username # users[j].username /\ users[i].id # users[j].id)
    /\ [](\A authorization \in Headers :
            LET validated == validate_token(tokens, authorization, now)
            IN validated.ok =>
                /\ \E i \in 1..Len(users) :
                       users[i].username = validated.tokendata.username
                /\ \A i \in 1..Len(users) :
                       users[i].username = validated.tokendata.username
                           => validated.tokendata.user_id = users[i].id)
    /\ [][\A i \in 1..Len(users) :
            /\ i <= Len(users')
            /\ users'[i].username = users[i].username
            /\ users'[i].id = users[i].id]_vars

\* tokens of two users, both passing validate_token
C30_Witness ==
    \E t1, t2 \in IssuedTokens :
        /\ t1.sub # t2.sub
        /\ validate_token(tokens, BearerHeader(t1), now).ok
        /\ validate_token(tokens, BearerHeader(t2), now).ok

\* the step is the crash of the k-th request in flight, a change_password that
\* has executed its password UPDATE and not yet its revocation UPDATE
CrashedBetweenUpdates(k) ==
    /\ inflight[k].op = "change_password"
    /\ inflight[k].pc = "update_password"
    /\ crash(k)

\* some token of the user is accepted by validate_token in the store db_tokens
AcceptedTokenOf(user, db_tokens, utcnow) ==
    \E t \in IssuedTokens :
        t.sub = user.username /\ validate_token(db_tokens, BearerHeader(t), utcnow).ok

\* C24: password change is not atomic with token revocation: a crash between
\* the password update and the token-revocation update leaves a persisted state
\* in which user U's new password is stored while U's previously issued
\* non-expired tokens are still non-revoked and accepted.
C24_CrashLeavesNewPasswordWithLiveTokens ==
    [][\A k \in 1..Len(inflight) :
        (CrashedBetweenUpdates(k)
            /\ AcceptedTokenOf(users[inflight[k].user_id], tokens, now))
          => /\ users'[inflight[k].user_id].password = inflight[k].password
             /\ AcceptedTokenOf(users'[inflight[k].user_id], tokens', now')]_vars

\* C24, amended: password change is atomic with token revocation.  A user's
\* stored password changes only in the commit of a change_password that has
\* executed both statements, and the same step flags every record the
\* revocation statement selected (the user's records that were neither revoked
\* nor within five minutes of expiry); a change_password that ends before its
\* commit, after either statement, leaves password and records as stored.
C24_PasswordAndRevocationCommitTogether ==
    /\ [][\A i \in 1..Len(users) :
            (i <= Len(users') /\ users'[i].password # users[i].password) =>
                \E k \in 1..Len(inflight) :
                    /\ inflight[k].op = "change_password"
                    /\ inflight[k].pc = "revoke_access_tokens"
                    /\ inflight[k].user_id = i
                    /\ users'[i].password = inflight[k].password
                    /\ \A j \in inflight[k].revoked : tokens'[j].is_revoked
                    /\ inflight' = RemoveAt(inflight, k)]_vars
    /\ [][\A k \in 1..Len(inflight) :
            (/\ Len(inflight') = Len(inflight)
             /\ inflight[k].pc = "update_password"
             /\ inflight'[k].pc = "revoke_access_tokens") =>
                /\ inflight'[k].revoked
                        = {j \in 1..Len(tokens) :
                                /\ tokens[j].user_id = inflight[k].user_id
                                /\ ~tokens[j].is_revoked
                                /\ ~is_expired(tokens[j], now)}
                /\ users' = users
                /\ tokens' = tokens]_vars
    /\ [][\A k \in 1..Len(inflight) :
            (inflight[k].op = "change_password" /\ inflight' = RemoveAt(inflight, k)) =>
                \/ users' = users /\ tokens' = tokens
                \/ /\ inflight[k].pc = "revoke_access_tokens"
                   /\ users'[inflight[k].user_id].password = inflight[k].password
                   /\ \A j \in inflight[k].revoked : tokens'[j].is_revoked]_vars

\* a change_password between its two statements, by a user who holds an
\* accepted token: the store still has the old password
C24_Witness ==
    \E k \in 1..Len(inflight) :
        /\ inflight[k].op = "change_password"
        /\ inflight[k].pc = "update_password"
        /\ AcceptedTokenOf(users[inflight[k].user_id], tokens, now)
        /\ users[inflight[k].user_id].password # inflight[k].password

\* C27: for every interleaving of a POST /token for user U (authenticating with
\* U's old password) and a change-password by U, once change-password has
\* committed every token of U that validate_token accepts was issued after
\* authenticating against the new password.  Stated for the token at the
\* moment its record is inserted: when it is accepted, the password it was
\* authenticated against is the one stored.
C27_NoOldPasswordTokenSurvives ==
    [][\A k \in 1..Len(inflight) :
        (inflight[k].op = "get_token" /\ get_token_commit(k)) =>
            (validate_token(tokens', BearerHeader(bearers'[Len(bearers')]), now').ok
                => users'[inflight[k].user_id].password = inflight[k].password)]_vars
====
